---- MODULE Spec2Model ----
\* Model of tools/stats/upload_test_stats.py: the XML-to-record normalization
\* (process_xml_element, parse_xml_report), the artifact retrieval
\* (get_artifact_urls, download_and_extract_*) and the run of the tool
\* (get_tests, __main__).
\*
\* Python strings that the code inspects character by character (attribute
\* values, text, path segments, artifact names) are sequences of one-character
\* strings; names used only as dictionary keys (tags, attribute names) are
\* TLA+ strings.
EXTENDS Integers, Sequences, FiniteSets, TLC

VARIABLES
  \* A call of process_xml_element.
  element, ret, epc,
  \* A call of parse_xml_report: its arguments, the first segment of the report
  \* path (report.parts[0]), the document the path names, and its locals.
  tag, report, workflow_id, workflow_run_attempt, document,
  job_id, pending, test_cases, rpc,
  \* A run of the tool: the command-line attempt, what the object storage
  \* lists and what the artifact API serves (its pages), the position in the
  \* script, the exception that ended it, and the locals of the functions.
  run_attempt, s3_listing, pages, pc, error,
  objs, found_one,
  fetched, artifacts, artifact_urls, items,
  \* The effects: requests made for archives, the skip messages printed, the
  \* files and directories of the working directory, add_docs calls.
  downloads, skipped, files, dirs, add_docs,
  \* get_tests: the reports still to parse, test_cases and test_suites.
  xml_reports, all_cases, all_suites

elemVars == <<element, ret, epc>>

reportArgs == <<tag, report, workflow_id, workflow_run_attempt, document>>

reportVars == <<tag, report, workflow_id, workflow_run_attempt, document,
                job_id, pending, test_cases, rpc>>

runInputs == <<run_attempt, s3_listing, pages>>

s3Vars == <<objs, found_one>>

ghaVars == <<fetched, artifacts, artifact_urls, items, skipped>>

fsVars == <<downloads, files, dirs>>

testsVars == <<xml_reports, all_cases, all_suites>>

runVars == <<runInputs, pc, error, s3Vars, ghaVars, fsVars, add_docs, testsVars>>

vars == <<elemVars, reportVars, runVars>>

----------------------------------------------------------------------------
\* Bounds of the enumerated inputs.

MaxAttrs == 2

MaxChildren == 2

MaxDocChildren == 2

MaxObjects == 3

MaxArtifacts == 3

MaxPages == 2

MaxRunObjects == 2

MaxRunArtifacts == 1

----------------------------------------------------------------------------
\* Generic helpers.

SeqsUpTo(S, n) == UNION {[1..k -> S] : k \in 0..n}

\* d[k] = v on a Python dict.
Put(d, k, v) == [x \in (DOMAIN d) \cup {k} |-> IF x = k THEN v ELSE d[x]]

EmptyDict == <<>>

RECURSIVE Pow10(_)
Pow10(k) == IF k = 0 THEN 1 ELSE 10 * Pow10(k - 1)

----------------------------------------------------------------------------
\* Python values stored in a record: str, int, float or a nested dict.
\* A float is kept exactly, as n / 10^scale with the trailing zeros of the
\* fraction removed.

StrVal(s) == [kind |-> "str", n |-> 0, scale |-> 0, str |-> s, rec |-> <<>>]

IntVal(i) == [kind |-> "int", n |-> i, scale |-> 0, str |-> <<>>, rec |-> <<>>]

FloatVal(m, sc) == [kind |-> "float", n |-> m, scale |-> sc, str |-> <<>>, rec |-> <<>>]

DictVal(d) == [kind |-> "dict", n |-> 0, scale |-> 0, str |-> <<>>, rec |-> d]

\* None, for element.text and element.tail.
None == <<"None">>

----------------------------------------------------------------------------
\* str.strip(), int(str) and float(str) on the characters the enumerated
\* strings are made of: digits, letters, space, newline, sign, '.', '_'.
\* (No enumerated string holds an exponent letter or spells inf or nan.)

Digits == {"0", "1", "2", "3", "4", "5", "6", "7", "8", "9"}

DigitVal(c) ==
  CASE c = "0" -> 0 [] c = "1" -> 1 [] c = "2" -> 2 [] c = "3" -> 3
    [] c = "4" -> 4 [] c = "5" -> 5 [] c = "6" -> 6 [] c = "7" -> 7
    [] c = "8" -> 8 [] c = "9" -> 9

Whitespace == {" ", "\n", "\t"}

RECURSIVE LStrip(_)
LStrip(s) == IF s # <<>> /\ Head(s) \in Whitespace THEN LStrip(Tail(s)) ELSE s

RECURSIVE RStrip(_)
RStrip(s) ==
  IF s # <<>> /\ s[Len(s)] \in Whitespace THEN RStrip(SubSeq(s, 1, Len(s) - 1)) ELSE s

Strip(s) == RStrip(LStrip(s))

\* digit (["_"] digit)* : the digit groups int() and float() accept.
IsDigitPart(s) ==
  /\ s # <<>>
  /\ s[1] \in Digits
  /\ s[Len(s)] \in Digits
  /\ \A i \in 1..Len(s) : s[i] \in Digits \cup {"_"}
  /\ \A i \in 1..(Len(s) - 1) : ~(s[i] = "_" /\ s[i + 1] = "_")

RECURSIVE DigitsValue(_, _)
DigitsValue(s, acc) ==
  IF s = <<>> THEN acc
  ELSE IF Head(s) = "_" THEN DigitsValue(Tail(s), acc)
  ELSE DigitsValue(Tail(s), 10 * acc + DigitVal(Head(s)))

RECURSIVE CountDigits(_)
CountDigits(s) ==
  IF s = <<>> THEN 0
  ELSE (IF Head(s) \in Digits THEN 1 ELSE 0) + CountDigits(Tail(s))

Signed(s) == s # <<>> /\ Head(s) \in {"+", "-"}

Unsigned(s) == IF Signed(s) THEN Tail(s) ELSE s

SignOf(s) == IF s # <<>> /\ Head(s) = "-" THEN -1 ELSE 1

\* int(s) does not raise ValueError.
IntParses(s) == IsDigitPart(Unsigned(Strip(s)))

IntOf(s) == SignOf(Strip(s)) * DigitsValue(Unsigned(Strip(s)), 0)

DotAt(s) == IF \E i \in 1..Len(s) : s[i] = "."
            THEN CHOOSE i \in 1..Len(s) : s[i] = "." /\ \A j \in 1..(i - 1) : s[j] # "."
            ELSE 0

IntPart(s) == IF DotAt(s) = 0 THEN s ELSE SubSeq(s, 1, DotAt(s) - 1)

FracPart(s) == IF DotAt(s) = 0 THEN <<>> ELSE SubSeq(s, DotAt(s) + 1, Len(s))

\* float(s) does not raise ValueError.
FloatParses(s) ==
  LET u == Unsigned(Strip(s))
  IN  IF DotAt(u) = 0 THEN IsDigitPart(u)
      ELSE /\ IntPart(u) = <<>> \/ IsDigitPart(IntPart(u))
           /\ FracPart(u) = <<>> \/ IsDigitPart(FracPart(u))
           /\ ~(IntPart(u) = <<>> /\ FracPart(u) = <<>>)

RECURSIVE Normalize(_, _)
Normalize(m, sc) ==
  IF sc > 0 /\ m % 10 = 0 THEN Normalize(m \div 10, sc - 1) ELSE FloatVal(m, sc)

FloatOf(s) ==
  LET u  == Unsigned(Strip(s))
      k  == CountDigits(FracPart(u))
      m  == DigitsValue(IntPart(u), 0) * Pow10(k) + DigitsValue(FracPart(u), 0)
  IN  Normalize(SignOf(Strip(s)) * m, k)

----------------------------------------------------------------------------
\* process_xml_element

\* An ET.Element: tag, attrib (dict of name -> string), text, tail, children.
Elem(t, attrib, text, tail, children) ==
  [tag |-> t, attrib |-> attrib, text |-> text, tail |-> tail, children |-> children]

\* The body of the loop over ret.items(): both try blocks run, on the same
\* string v.
Coerce(v) ==
  LET afterInt == IF IntParses(v) THEN IntVal(IntOf(v)) ELSE StrVal(v)
  IN  IF FloatParses(v) THEN FloatOf(v) ELSE afterInt

\* ret.update(element.attrib) followed by the coercion loop.
Attributes(e) == [k \in DOMAIN e.attrib |-> Coerce(e.attrib[k])]

\* NonBlank without the call of strip().
NonBlankNoStrip(x) == x # None /\ x # <<>>

\* `x and x.strip()` for x = element.text or element.tail.
NonBlank(x) == x # None /\ x # <<>> /\ Strip(x) # <<>>

WithText(r, e) == IF NonBlank(e.text) THEN Put(r, "text", StrVal(e.text)) ELSE r

WithTail(r, e) == IF NonBlank(e.tail) THEN Put(r, "tail", StrVal(e.tail)) ELSE r

RECURSIVE process_xml_element(_)
RECURSIVE WithChildren(_, _)
\* WithChildren that keeps the first child of a tag instead of the last.
WithChildrenFirstWins(r, kids) ==
  IF kids = <<>> THEN r
  ELSE LET t == Head(kids).tag
           later == WithChildren(r, Tail(kids))
       IN  Put(later, t, DictVal(process_xml_element(Head(kids))))

\* for child in element: ret[child.tag] = process_xml_element(child)
WithChildren(r, kids) ==
  IF kids = <<>> THEN r
  ELSE WithChildren(Put(r, Head(kids).tag, DictVal(process_xml_element(Head(kids)))),
                    Tail(kids))

process_xml_element(e) ==
  WithChildren(WithTail(WithText(Attributes(e), e), e), e.children)

----------------------------------------------------------------------------
\* Inputs of process_xml_element.

AttrNames == {"name", "time", "text"}

AttrValues ==
  { <<"7">>, <<"1", ".", "5">>, <<"a", "b", "c">>, <<"-", "3">>, <<" ", "1", "2">>,
    <<"1", "_", "0">>, <<".">>, <<>> }

Texts == {None, <<>>, <<" ", "\n">>, <<"h", "i">>}

\* Every dict of at most n of the given names.
Dicts(names, values, n) ==
  UNION {[D -> values] : D \in {X \in SUBSET names : Cardinality(X) <= n}}

Elems(tags, attribs, texts, tails, kidseqs) ==
  {Elem(t, a, x, y, k) : t \in tags, a \in attribs, x \in texts, y \in tails, k \in kidseqs}

\* Childless elements with every combination of attributes, text and tail.
FlatElements ==
  Elems({"testcase"}, Dicts(AttrNames, AttrValues, MaxAttrs), {None, <<"h", "i">>},
        {None}, {<<>>})

GrandChildren == Elems({"foo"}, {EmptyDict}, {<<"x">>}, {None}, {<<>>})

ChildTags == {"foo", "text", "tail"}

Children ==
  Elems(ChildTags, {("id" :> <<"1">>), ("id" :> <<"2">>)}, {None}, {None}, {<<>>})
    \cup Elems({"foo"}, {EmptyDict}, {None}, {None}, SeqsUpTo(GrandChildren, 1))

\* Elements with children, and attributes that share a name with the text
\* and tail fields.
NestedElements ==
  Elems({"testcase"},
        {EmptyDict, ("text" :> <<"7">>), ("tail" :> <<"a", "b", "c">>), ("foo" :> <<"1">>)},
        Texts, Texts, SeqsUpTo(Children, MaxChildren))

Elements == FlatElements \cup NestedElements

NoElement == Elem("", EmptyDict, None, None, <<>>)

ElemIdle == element = NoElement /\ ret = EmptyDict /\ epc = "idle"

ElemInit == element \in Elements /\ ret = EmptyDict /\ epc = "call"

\* A call of process_xml_element(element).
ProcessElement ==
  /\ epc = "call"
  /\ ret' = process_xml_element(element)
  /\ epc' = "returned"
  /\ UNCHANGED element

----------------------------------------------------------------------------
\* parse_xml_report

\* A file that ET.parse rejects.
Malformed == Elem("#malformed", EmptyDict, None, None, <<>>)

\* s.partition("_")[2]: what follows the first underscore, and the empty
\* string when s has none.
PartitionFirst(s) ==
  IF \E i \in 1..Len(s) : s[i] = "_"
  THEN LET i == CHOOSE k \in 1..Len(s) : s[k] = "_" /\ \A j \in 1..(k - 1) : s[j] # "_"
       IN  SubSeq(s, i + 1, Len(s))
  ELSE <<>>

\* s.rpartition("_")[2]: what follows the last underscore, or all of s when
\* it has none.
RPartitionLast(s) ==
  IF \E i \in 1..Len(s) : s[i] = "_"
  THEN LET i == CHOOSE k \in 1..Len(s) :
                  s[k] = "_" /\ \A j \in (k + 1)..Len(s) : s[j] # "_"
       IN  SubSeq(s, i + 1, Len(s))
  ELSE s

RECURSIVE Iter(_, _)
RECURSIVE IterAll(_, _)
\* The direct children of the element with that tag (root.findall(tag)).
FindAll(e, t) == SelectSeq(e.children, LAMBDA c : c.tag = t)

\* root.iter(tag): the element and its descendants, in document order, with
\* that tag.
Iter(e, t) == (IF e.tag = t THEN <<e>> ELSE <<>>) \o IterAll(e.children, t)

IterAll(kids, t) ==
  IF kids = <<>> THEN <<>> ELSE Iter(Head(kids), t) \o IterAll(Tail(kids), t)

\* Inject that keeps a field the record already has.
InjectMissing(case, wid, attempt, jid) ==
  LET SetDefault(d, k, v) == IF k \in DOMAIN d THEN d ELSE Put(d, k, v)
  IN  SetDefault(SetDefault(SetDefault(case, "workflow_id", IntVal(wid)),
                            "workflow_run_attempt", IntVal(attempt)),
                 "job_id", IntVal(jid))

\* The three assignments after process_xml_element in the loop body.
Inject(case, wid, attempt, jid) ==
  Put(Put(Put(case, "workflow_id", IntVal(wid)),
          "workflow_run_attempt", IntVal(attempt)),
      "job_id", IntVal(jid))

\* job_id = int(report.parts[0].rpartition("_")[2])
ParseJobId ==
  /\ rpc = "job_id"
  /\ IF IntParses(RPartitionLast(report))
     THEN job_id' = IntOf(RPartitionLast(report)) /\ rpc' = "parse"
     ELSE job_id' = job_id /\ rpc' = "ValueError"
  /\ UNCHANGED <<reportArgs, pending, test_cases>>

\* root = ET.parse(report); test_cases = []; the iterator root.iter(tag)
ParseDocument ==
  /\ rpc = "parse"
  /\ IF document = Malformed
     THEN pending' = pending /\ rpc' = "ParseError"
     ELSE pending' = Iter(document, tag) /\ rpc' = "iter"
  /\ UNCHANGED <<reportArgs, job_id, test_cases>>

\* One pass of the loop over root.iter(tag).
AppendCase ==
  /\ rpc = "iter"
  /\ pending # <<>>
  /\ test_cases' = Append(test_cases,
                          Inject(process_xml_element(Head(pending)),
                                 workflow_id, workflow_run_attempt, job_id))
  /\ pending' = Tail(pending)
  /\ UNCHANGED <<reportArgs, job_id, rpc>>

\* return test_cases
ReturnCases ==
  /\ rpc = "iter"
  /\ pending = <<>>
  /\ rpc' = "returned"
  /\ UNCHANGED <<reportArgs, job_id, pending, test_cases>>

\* Inputs of parse_xml_report.

Segments ==
  { <<"r", "_", "1", "2">>, <<"1", "2">>, <<"r">>, <<"r", "_", "x">>, <<"r", "_">>,
    <<"r", "_", "1", "_", "3">> }

DocLeaves ==
  Elems({"testcase", "testsuite", "job_id"}, {EmptyDict, ("job_id" :> <<"9">>)},
        {None}, {None}, {<<>>})

DocSuites ==
  Elems({"testsuite", "testcase"}, {EmptyDict, ("workflow_id" :> <<"F", "o", "o">>)},
        {None}, {None}, SeqsUpTo(DocLeaves, MaxDocChildren))

DocRoots ==
  Elems({"testsuites", "testsuite"}, {EmptyDict}, {None}, {None}, SeqsUpTo(DocSuites, 1))

\* <testsuite name="Foo" tests="3"><testcase name="bar" time="0.5"/></testsuite>
ExampleDocument ==
  Elem("testsuite", ("name" :> <<"F", "o", "o">>) @@ ("tests" :> <<"3">>), None, None,
       << Elem("testcase", ("name" :> <<"b", "a", "r">>) @@ ("time" :> <<"0", ".", "5">>),
               None, None, <<>>) >>)

Documents == DocSuites \cup DocRoots \cup {Malformed, ExampleDocument}

NoJobId == -1

ReportIdle ==
  /\ tag = "" /\ report = <<>> /\ workflow_id = 0 /\ workflow_run_attempt = 0
  /\ document = NoElement /\ job_id = NoJobId /\ pending = <<>> /\ test_cases = <<>>
  /\ rpc = "idle"

ReportInit ==
  /\ tag \in {"testcase", "testsuite"}
  /\ report \in Segments
  /\ workflow_id = 100
  /\ workflow_run_attempt \in {1, 2}
  /\ document \in Documents
  /\ job_id = NoJobId /\ pending = <<>> /\ test_cases = <<>>
  /\ rpc = "job_id"

----------------------------------------------------------------------------
\* Names of archives.

TEST_REPORT == <<"t", "e", "s", "t", "-", "r", "e", "p", "o", "r", "t">>

RUNATTEMPT == <<"r", "u", "n", "a", "t", "t", "e", "m", "p", "t">>

UNZIPPED == <<"u", "n", "z", "i", "p", "p", "e", "d", "-">>

ZIP == <<".", "z", "i", "p">>

StartsWith(s, prefix) == Len(s) >= Len(prefix) /\ SubSeq(s, 1, Len(prefix)) = prefix

\* `sub in s`
Contains(s, sub) ==
  \E i \in 1..(Len(s) - Len(sub) + 1) : SubSeq(s, i, i + Len(sub) - 1) = sub

RECURSIVE SplitAcc(_, _, _)
SplitAcc(s, sep, atom) ==
  IF s = <<>> THEN <<atom>>
  ELSE IF Head(s) = sep THEN <<atom>> \o SplitAcc(Tail(s), sep, <<>>)
  ELSE SplitAcc(Tail(s), sep, Append(atom, Head(s)))

\* s.split(sep)
Split(s, sep) == SplitAcc(s, sep, <<>>)

\* Path.stem: the name without its last suffix.
Stem(name) ==
  LET dots == {i \in 1..Len(name) : name[i] = "."}
      last == IF dots = {} THEN 0 ELSE CHOOSE i \in dots : \A j \in dots : j <= i
  IN  IF 1 < last /\ last < Len(name) THEN SubSeq(name, 1, last - 1) ELSE name

\* unzip: p.with_name("unzipped-" + p.stem)
UnzippedDir(name) == UNZIPPED \o Stem(name)

----------------------------------------------------------------------------
\* download_and_extract_s3_reports

\* The request for the archive, the write of the file and unzip, when none
\* of them raises.
Fetched(src, name) ==
  /\ downloads' = Append(downloads, [src |-> src, name |-> name])
  /\ files' = files \cup {name}
  /\ dirs' = dirs \cup {UnzippedDir(name)}

\* The request, the write or unzip raises: the exception leaves the script.
Raise(e) == pc' = "error" /\ error' = e

\* S3Download without the assignment found_one = True.
S3DownloadNoFlag ==
  /\ pc = "s3_loop"
  /\ objs # <<>>
  /\ found_one' = found_one
  /\ Fetched("s3", Head(objs))
  /\ objs' = Tail(objs)
  /\ UNCHANGED <<pc, error>>
  /\ UNCHANGED <<runInputs, ghaVars, add_docs, testsVars>>

\* One pass of `for obj in objs`.
S3Download ==
  /\ pc = "s3_loop"
  /\ objs # <<>>
  /\ found_one' = TRUE
  /\ \/ /\ Fetched("s3", Head(objs))
        /\ objs' = Tail(objs)
        /\ UNCHANGED <<pc, error>>
     \/ /\ Raise("IOError")
        /\ UNCHANGED <<objs, fsVars>>
  /\ UNCHANGED <<runInputs, ghaVars, add_docs, testsVars>>

\* if not found_one: raise RuntimeError
S3LoopEnd ==
  /\ pc = "s3_loop"
  /\ objs = <<>>
  /\ IF ~found_one THEN Raise("RuntimeError")
     ELSE pc' = "urls_first" /\ error' = error
  /\ UNCHANGED <<runInputs, s3Vars, ghaVars, fsVars, add_docs, testsVars>>

----------------------------------------------------------------------------
\* get_artifact_urls

\* "next" in response.links, for the response that served page k.
HasNext(k) == k < Len(pages)

\* artifact_urls[Path(name)] = url on the dict, kept as the sequence of its
\* items in insertion order.
SetItem(d, name, url) ==
  IF \E i \in DOMAIN d : d[i].name = name
  THEN [i \in DOMAIN d |-> IF d[i].name = name THEN [name |-> name, url |-> url] ELSE d[i]]
  ELSE Append(d, [name |-> name, url |-> url])

\* The filter without the test on the name.
ArtifactUrlsAll(arts) ==
  LET RECURSIVE Fill(_, _)
      Fill(d, rest) ==
        IF rest = <<>> THEN d
        ELSE Fill(SetItem(d, Head(rest).name, Head(rest).url), Tail(rest))
  IN  Fill(<<>>, arts)

\* The loop over artifacts that fills artifact_urls.
ArtifactUrls(arts) ==
  LET RECURSIVE Fill(_, _)
      Fill(d, rest) ==
        IF rest = <<>> THEN d
        ELSE IF Contains(Head(rest).name, TEST_REPORT)
             THEN Fill(SetItem(d, Head(rest).name, Head(rest).url), Tail(rest))
             ELSE Fill(d, Tail(rest))
  IN  Fill(<<>>, arts)

\* The first requests.get and artifacts = response.json()["artifacts"].
GetFirstPage ==
  /\ pc = "urls_first"
  /\ \/ /\ fetched' = <<1>>
        /\ artifacts' = pages[1]
        /\ pc' = "urls_loop"
        /\ error' = error
     \/ /\ Raise("IOError")
        /\ UNCHANGED <<fetched, artifacts>>
  /\ UNCHANGED <<runInputs, s3Vars, artifact_urls, items, skipped, fsVars, add_docs,
                 testsVars>>

\* One pass of the while loop: the request for the page the next link names.
GetNextPage ==
  /\ pc = "urls_loop"
  /\ HasNext(fetched[Len(fetched)])
  /\ \/ /\ fetched' = Append(fetched, fetched[Len(fetched)] + 1)
        /\ artifacts' = artifacts \o pages[fetched[Len(fetched)] + 1]
        /\ UNCHANGED <<pc, error>>
     \/ /\ Raise("IOError")
        /\ UNCHANGED <<fetched, artifacts>>
  /\ UNCHANGED <<runInputs, s3Vars, artifact_urls, items, skipped, fsVars, add_docs,
                 testsVars>>

\* The loop ends; artifact_urls is built and returned, and the caller starts
\* the loop over its items.
BuildUrls ==
  /\ pc = "urls_loop"
  /\ ~HasNext(fetched[Len(fetched)])
  /\ artifact_urls' = ArtifactUrls(artifacts)
  /\ items' = artifact_urls'
  /\ pc' = "gha_loop"
  /\ UNCHANGED <<runInputs, error, s3Vars, fetched, artifacts, skipped, fsVars, add_docs,
                 testsVars>>

----------------------------------------------------------------------------
\* download_and_extract_artifact

AttemptText(atom) == SubSeq(atom, Len(RUNATTEMPT) + 1, Len(atom))

\* The loop over the atoms: whether int() raised, and how many times the
\* mismatch branch printed before.
RECURSIVE ScanAtoms(_, _, _)
ScanAtoms(atoms, attempt, printed) ==
  IF atoms = <<>> THEN [raised |-> FALSE, printed |-> printed]
  ELSE IF ~StartsWith(Head(atoms), RUNATTEMPT) THEN ScanAtoms(Tail(atoms), attempt, printed)
  ELSE IF ~IntParses(AttemptText(Head(atoms))) THEN [raised |-> TRUE, printed |-> printed]
  ELSE ScanAtoms(Tail(atoms), attempt,
                 printed + (IF IntOf(AttemptText(Head(atoms))) # attempt THEN 1 ELSE 0))

Scan(name, attempt) == ScanAtoms(Split(name, "-"), attempt, 0)

\* One pass of the loop over artifact_urls.items(): a call of
\* download_and_extract_artifact. The mismatch branch prints; the download
\* follows the loop over the atoms whatever it found.
DownloadArtifact ==
  /\ pc = "gha_loop"
  /\ items # <<>>
  /\ LET name == Head(items).name
         scan == Scan(name, run_attempt)
     IN  /\ skipped' = skipped \o [i \in 1..scan.printed |-> name]
         /\ IF scan.raised
            THEN Raise("ValueError") /\ UNCHANGED <<items, fsVars>>
            ELSE \/ /\ Fetched("gha", name)
                    /\ items' = Tail(items)
                    /\ UNCHANGED <<pc, error>>
                 \/ /\ Raise("IOError")
                    /\ UNCHANGED <<items, fsVars>>
  /\ UNCHANGED <<runInputs, s3Vars, fetched, artifacts, artifact_urls, add_docs, testsVars>>

\* download_and_extract_gha_artifacts returns.
GhaLoopEnd ==
  /\ pc = "gha_loop"
  /\ items = <<>>
  /\ pc' = "glob"
  /\ UNCHANGED <<runInputs, error, s3Vars, ghaVars, fsVars, add_docs, testsVars>>

----------------------------------------------------------------------------
\* get_tests and __main__

WORKFLOW_RUN_ID == 100

\* Path(".").glob("**/*.xml"): every extracted archive holds one report, and
\* the first part of its path is the archive's directory.
Glob ==
  /\ pc = "glob"
  /\ xml_reports' = dirs
  /\ pc' = "glob_loop"
  /\ UNCHANGED <<runInputs, error, s3Vars, ghaVars, fsVars, add_docs, all_cases, all_suites>>

\* The arguments of a call of parse_xml_report.
Call(t, path, doc) ==
  /\ tag' = t
  /\ report' = path
  /\ workflow_id' = WORKFLOW_RUN_ID
  /\ workflow_run_attempt' = run_attempt
  /\ document' = doc
  /\ job_id' = NoJobId /\ pending' = <<>> /\ test_cases' = <<>>
  /\ rpc' = "job_id"

\* The loop over the reports takes one, in the order of the file system;
\* parse_xml_report("testcase", ...) is called on it. The file holds a
\* document or something that ET.parse rejects.
ParseCases ==
  /\ pc = "glob_loop"
  /\ xml_reports # {}
  /\ \E r \in xml_reports, doc \in {ExampleDocument, Malformed} : Call("testcase", r, doc)
  /\ pc' = "testcase"
  /\ UNCHANGED <<runInputs, error, s3Vars, ghaVars, fsVars, add_docs, testsVars>>

\* test_cases.extend(...); parse_xml_report("testsuite", ...) on the same file.
ParseSuites ==
  /\ pc = "testcase"
  /\ rpc = "returned"
  /\ all_cases' = all_cases \o test_cases
  /\ Call("testsuite", report, document)
  /\ pc' = "testsuite"
  /\ UNCHANGED <<runInputs, error, s3Vars, ghaVars, fsVars, add_docs, xml_reports, all_suites>>

\* test_suites.extend(...); the loop goes on.
ExtendSuites ==
  /\ pc = "testsuite"
  /\ rpc = "returned"
  /\ all_suites' = all_suites \o test_cases
  /\ xml_reports' = xml_reports \ {report}
  /\ rpc' = "idle"
  /\ pc' = "glob_loop"
  /\ UNCHANGED <<reportArgs, job_id, pending, test_cases>>
  /\ UNCHANGED <<runInputs, error, s3Vars, ghaVars, fsVars, add_docs, all_cases>>

\* ParseRaised with the exception caught and the report left out.
ParseRaisedCaught ==
  /\ pc \in {"testcase", "testsuite"}
  /\ rpc \in {"ValueError", "ParseError"}
  /\ xml_reports' = xml_reports \ {report}
  /\ rpc' = "idle"
  /\ pc' = "glob_loop"
  /\ UNCHANGED <<reportArgs, job_id, pending, test_cases>>
  /\ UNCHANGED <<runInputs, error, s3Vars, ghaVars, fsVars, add_docs, all_cases, all_suites>>

\* parse_xml_report raised; nothing catches it.
ParseRaised ==
  /\ pc \in {"testcase", "testsuite"}
  /\ rpc \in {"ValueError", "ParseError"}
  /\ Raise(rpc)
  /\ UNCHANGED reportVars
  /\ UNCHANGED <<runInputs, s3Vars, ghaVars, fsVars, add_docs, testsVars>>

\* get_tests returns test_cases, test_suites.
GetTestsReturns ==
  /\ pc = "glob_loop"
  /\ xml_reports = {}
  /\ pc' = "upload_test_run"
  /\ UNCHANGED <<runInputs, error, s3Vars, ghaVars, fsVars, add_docs, testsVars>>

\* upload_to_rockset(collection, docs): the client is built, then add_docs is
\* called once with all of docs. Either may raise.
Upload(collection, docs, next) ==
  \/ /\ add_docs' = Append(add_docs, [collection |-> collection, docs |-> docs, ok |-> TRUE])
     /\ pc' = next
     /\ error' = error
  \/ /\ add_docs' = Append(add_docs, [collection |-> collection, docs |-> docs, ok |-> FALSE])
     /\ Raise("IOError")
  \/ /\ add_docs' = add_docs
     /\ Raise("KeyError")

\* upload_to_rockset("test_run", test_cases)
UploadTestRun ==
  /\ pc = "upload_test_run"
  /\ Upload("test_run", all_cases, "upload_test_suite")
  /\ UNCHANGED <<runInputs, s3Vars, ghaVars, fsVars, testsVars>>

\* upload_to_rockset("test_suite", test_suites)
UploadTestSuite ==
  /\ pc = "upload_test_suite"
  /\ Upload("test_suite", all_suites, "done")
  /\ UNCHANGED <<runInputs, s3Vars, ghaVars, fsVars, testsVars>>

----------------------------------------------------------------------------
\* Inputs of a run.

Name(prefix, rest) == prefix \o rest \o ZIP

\* Keys under the prefix of the run, by the last part of the key.
S3Names ==
  { Name(TEST_REPORT, <<"s", "-", "a", "_", "7">>),
    Name(TEST_REPORT, <<"s", "-", "b", "_", "8">>),
    Name(TEST_REPORT, <<"s", "-", "c">>) }

Artifact(name, url) == [name |-> name, url |-> url]

Artifacts ==
  { Artifact(Name(TEST_REPORT, <<"s", "-">> \o RUNATTEMPT \o <<"1", "-", "a", "_", "7">>), "url1"),
    Artifact(Name(TEST_REPORT, <<"s", "-">> \o RUNATTEMPT \o <<"2", "-", "a", "_", "7">>), "url2"),
    Artifact(Name(TEST_REPORT, <<"s", "-", "b", "_", "8">>), "url3"),
    Artifact(Name(TEST_REPORT, <<"s", "-", "b", "_", "8">>), "url4"),
    Artifact(Name(<<"l", "o", "g", "s">>, <<"-", "a", "_", "7">>), "url5"),
    Artifact(Name(TEST_REPORT, <<"-">> \o RUNATTEMPT \o <<"x">>), "url6") }

\* The ways to serve the artifacts s on k pages.
RECURSIVE Splits(_, _)
Splits(s, k) ==
  IF k = 1 THEN {<<s>>}
  ELSE UNION {{<<SubSeq(s, 1, i)>> \o r : r \in Splits(SubSeq(s, i + 1, Len(s)), k - 1)} :
                i \in 0..Len(s)}

PageChains(arts, n, k) == UNION {Splits(s, j) : s \in SeqsUpTo(arts, n), j \in 1..k}

RunIdle ==
  /\ run_attempt = 0 /\ s3_listing = <<>> /\ pages = <<>> /\ pc = "idle" /\ error = "none"
  /\ objs = <<>> /\ found_one = FALSE
  /\ fetched = <<>> /\ artifacts = <<>> /\ artifact_urls = <<>> /\ items = <<>>
  /\ downloads = <<>> /\ skipped = <<>> /\ files = {} /\ dirs = {} /\ add_docs = <<>>
  /\ xml_reports = {} /\ all_cases = <<>> /\ all_suites = <<>>

\* The state at the call of download_and_extract_s3_reports in get_tests.
RunStart(attempts, listings, chains) ==
  /\ run_attempt \in attempts /\ s3_listing \in listings /\ pages \in chains
  /\ pc = "s3_loop" /\ error = "none"
  /\ objs = s3_listing /\ found_one = FALSE
  /\ fetched = <<>> /\ artifacts = <<>> /\ artifact_urls = <<>> /\ items = <<>>
  /\ downloads = <<>> /\ skipped = <<>> /\ files = {} /\ dirs = {} /\ add_docs = <<>>
  /\ xml_reports = {} /\ all_cases = <<>> /\ all_suites = <<>>

----------------------------------------------------------------------------
\* The specifications.

\* Calls of process_xml_element.
InitElem == ElemInit /\ ReportIdle /\ RunIdle

NextElem == ProcessElement /\ UNCHANGED <<reportVars, runVars>>

SpecElem == InitElem /\ [][NextElem]_vars

\* Calls of parse_xml_report.
InitReport == ReportInit /\ ElemIdle /\ RunIdle

NextReport ==
  \/ ParseJobId /\ UNCHANGED <<elemVars, runVars>>
  \/ ParseDocument /\ UNCHANGED <<elemVars, runVars>>
  \/ AppendCase /\ UNCHANGED <<elemVars, runVars>>
  \/ ReturnCases /\ UNCHANGED <<elemVars, runVars>>

SpecReport == InitReport /\ [][NextReport]_vars

\* Calls of download_and_extract_s3_reports, for every listing.
InitS3 ==
  /\ RunStart({1}, SeqsUpTo(S3Names, MaxObjects), {<<<<>>>>})
  /\ ElemIdle /\ ReportIdle

NextS3 ==
  \/ S3Download /\ UNCHANGED <<elemVars, reportVars>>
  \/ S3LoopEnd /\ UNCHANGED <<elemVars, reportVars>>

SpecS3 == InitS3 /\ [][NextS3]_vars

\* Runs up to the return of download_and_extract_gha_artifacts, for every
\* chain of pages.
InitGha ==
  /\ RunStart({1, 2}, {<<Name(TEST_REPORT, <<"s", "-", "a", "_", "7">>)>>},
              PageChains(Artifacts, MaxArtifacts, MaxPages))
  /\ ElemIdle /\ ReportIdle

NextGha ==
  \/ S3Download /\ UNCHANGED <<elemVars, reportVars>>
  \/ S3LoopEnd /\ UNCHANGED <<elemVars, reportVars>>
  \/ GetFirstPage /\ UNCHANGED <<elemVars, reportVars>>
  \/ GetNextPage /\ UNCHANGED <<elemVars, reportVars>>
  \/ BuildUrls /\ UNCHANGED <<elemVars, reportVars>>
  \/ DownloadArtifact /\ UNCHANGED <<elemVars, reportVars>>
  \/ GhaLoopEnd /\ UNCHANGED <<elemVars, reportVars>>

SpecGha == InitGha /\ [][NextGha]_vars

\* Whole runs of the tool.
RunS3Names ==
  { Name(TEST_REPORT, <<"s", "-", "a", "_", "7">>), Name(TEST_REPORT, <<"s", "-", "c">>) }

RunArtifacts ==
  { Artifact(Name(TEST_REPORT, <<"s", "-">> \o RUNATTEMPT \o <<"1", "-", "a", "_", "7">>), "url1"),
    Artifact(Name(TEST_REPORT, <<"s", "-", "b", "_", "8">>), "url3") }

InitRun ==
  /\ RunStart({1}, SeqsUpTo(RunS3Names, MaxRunObjects),
              PageChains(RunArtifacts, MaxRunArtifacts, MaxPages))
  /\ ElemIdle /\ ReportIdle

NextRun ==
  \/ S3Download /\ UNCHANGED <<elemVars, reportVars>>
  \/ S3LoopEnd /\ UNCHANGED <<elemVars, reportVars>>
  \/ GetFirstPage /\ UNCHANGED <<elemVars, reportVars>>
  \/ GetNextPage /\ UNCHANGED <<elemVars, reportVars>>
  \/ BuildUrls /\ UNCHANGED <<elemVars, reportVars>>
  \/ DownloadArtifact /\ UNCHANGED <<elemVars, reportVars>>
  \/ GhaLoopEnd /\ UNCHANGED <<elemVars, reportVars>>
  \/ Glob /\ UNCHANGED <<elemVars, reportVars>>
  \/ ParseCases /\ UNCHANGED elemVars
  \/ ParseJobId /\ UNCHANGED <<elemVars, runVars>>
  \/ ParseDocument /\ UNCHANGED <<elemVars, runVars>>
  \/ AppendCase /\ UNCHANGED <<elemVars, runVars>>
  \/ ReturnCases /\ UNCHANGED <<elemVars, runVars>>
  \/ ParseSuites /\ UNCHANGED elemVars
  \/ ExtendSuites /\ UNCHANGED elemVars
  \/ ParseRaised /\ UNCHANGED elemVars
  \/ GetTestsReturns /\ UNCHANGED <<elemVars, reportVars>>
  \/ UploadTestRun /\ UNCHANGED <<elemVars, reportVars>>
  \/ UploadTestSuite /\ UNCHANGED <<elemVars, reportVars>>

SpecRun == InitRun /\ [][NextRun]_vars

----------------------------------------------------------------------------
\* Claims about process_xml_element.

ChildTagsOf(e) == {e.children[i].tag : i \in DOMAIN e.children}

LastChild(e, t) ==
  e.children[CHOOSE i \in DOMAIN e.children :
               /\ e.children[i].tag = t
               /\ \A j \in DOMAIN e.children : e.children[j].tag = t => j <= i]

\* The text or tail is absent, empty or whitespace only.
Blank(x) == x = None \/ \A i \in DOMAIN x : x[i] \in {" ", "\n", "\t"}

\* An attribute whose field is not replaced by the text, the tail or a child.
PlainAttr(e, k) ==
  /\ k \in DOMAIN e.attrib
  /\ k \notin ChildTagsOf(e)
  /\ ~(k = "text" /\ ~Blank(e.text))
  /\ ~(k = "tail" /\ ~Blank(e.tail))

\* C1: every attribute is stored as an integer when its string parses as an
\* integer, as a float when it parses as a float but not as an integer, and
\* as the unchanged string otherwise.
C1_Coercion ==
  epc = "returned" =>
    \A k \in DOMAIN element.attrib :
      PlainAttr(element, k) =>
        LET v == element.attrib[k]
        IN  /\ IntParses(v) => ret[k] = IntVal(IntOf(v))
            /\ (~IntParses(v) /\ FloatParses(v)) => ret[k] = FloatOf(v)
            /\ (~IntParses(v) /\ ~FloatParses(v)) => ret[k] = StrVal(v)

\* C5: the record has one field per distinct child tag name (besides the
\* fields of the attributes, the text and the tail), and the field of a tag
\* holds the normalized last child of that tag.
C5_ChildFields ==
  epc = "returned" =>
    /\ DOMAIN ret = (DOMAIN element.attrib) \cup ChildTagsOf(element)
                      \cup (IF ~Blank(element.text) THEN {"text"} ELSE {})
                      \cup (IF ~Blank(element.tail) THEN {"tail"} ELSE {})
    /\ \A t \in ChildTagsOf(element) :
         ret[t] = DictVal(process_xml_element(LastChild(element, t)))

\* C5 witness: two children named foo, the first with a child of its own; the
\* field foo holds the record of the second.
C5_Witness ==
  /\ epc = "returned"
  /\ Len(element.children) = 2
  /\ element.children[1].tag = "foo"
  /\ element.children[2].tag = "foo"
  /\ element.children[1] # element.children[2]
  /\ element.children[1].children # <<>>
  /\ ret["foo"] = DictVal(("id" :> FloatVal(2, 0)))

\* The field that the element's text (which = "text") or tail (which = "tail")
\* is stored in, as the claim C6 states it.
TextFieldAsClaimed(which, x) ==
  IF ~Blank(x) THEN which \in DOMAIN ret /\ ret[which] = StrVal(x)
  ELSE which \notin DOMAIN ret

\* C6 as stated: for every element, also one with an attribute or a child
\* named text or tail, the record has a text (tail) field holding the text
\* (tail) exactly when it is non-blank, and no such field otherwise.
C6_TextTailAsStated ==
  epc = "returned" =>
    /\ TextFieldAsClaimed("text", element.text)
    /\ TextFieldAsClaimed("tail", element.tail)

\* What the code stores under the key `which`: the last child of that tag if
\* there is one, else the non-blank text, else the coerced attribute of that
\* name, else nothing.
TextFieldAmended(which, x) ==
  IF which \in ChildTagsOf(element)
  THEN ret[which] = DictVal(process_xml_element(LastChild(element, which)))
  ELSE IF ~Blank(x) THEN which \in DOMAIN ret /\ ret[which] = StrVal(x)
  ELSE IF which \in DOMAIN element.attrib
       THEN /\ which \in DOMAIN ret
            /\ ret[which].kind \in {"str", "int", "float"}
            /\ ret[which].kind = "str" => ret[which] = StrVal(element.attrib[which])
  ELSE which \notin DOMAIN ret

\* C6, amended: the text (tail) field holds the text (tail) exactly when it
\* is non-blank, for an element with no child named text (tail) and, when the
\* text (tail) is blank, no attribute of that name. A child named text (tail)
\* takes the field, and an attribute of that name shows through a blank text.
C6_TextTail ==
  epc = "returned" =>
    /\ TextFieldAmended("text", element.text)
    /\ TextFieldAmended("tail", element.tail)

\* C6 witness: a non-blank text and a whitespace-only tail; only the text field
\* is there.
C6_Witness ==
  /\ epc = "returned"
  /\ element.text = <<"h", "i">>
  /\ element.tail = <<" ", "\n">>
  /\ element.attrib = EmptyDict
  /\ element.children = <<>>
  /\ ret = ("text" :> StrVal(<<"h", "i">>))

----------------------------------------------------------------------------
\* Claims about parse_xml_report.

HasUnderscore(s) == \E i \in 1..Len(s) : s[i] = "_"

\* s = head \o "_" \o suffix with no underscore in the suffix.
IsSuffixAfterLastUnderscore(s, suffix) ==
  /\ \A i \in 1..Len(suffix) : suffix[i] # "_"
  /\ \E head \in {SubSeq(s, 1, k) : k \in 0..Len(s)} : s = head \o <<"_">> \o suffix

\* The segment ends in _<int>.
HasTrailingInt(s) ==
  \E k \in 1..Len(s) :
    IsSuffixAfterLastUnderscore(s, SubSeq(s, k + 1, Len(s)))
      /\ IntParses(SubSeq(s, k + 1, Len(s)))

PastJobId == rpc \in {"parse", "ParseError", "iter", "returned"}

\* C3 as stated: a first segment with no trailing _<int>, also one without
\* underscore that consists of digits only, makes parse_xml_report fail, and
\* no record is returned.
C3_FailsAsStated ==
  ~HasTrailingInt(report) => ~PastJobId /\ test_cases = <<>>

\* C3, amended: parse_xml_report fails with a ValueError and returns no
\* record when the text after the last underscore of the first segment is
\* not an integer literal, and when the segment has no underscore and is not
\* an integer literal as a whole; a segment without underscore that is an
\* integer literal is accepted, and its value is the job id.
C3_Fails ==
  /\ (HasUnderscore(report) /\ ~HasTrailingInt(report))
       => ~PastJobId /\ test_cases = <<>>
  /\ (~HasUnderscore(report) /\ ~IntParses(report))
       => ~PastJobId /\ test_cases = <<>>
  /\ (~HasUnderscore(report) /\ IntParses(report))
       => rpc # "ValueError" /\ (PastJobId => job_id = IntOf(report))

\* C3 witness: the text after the last underscore is no integer, and the call
\* ended with a ValueError.
C3_Witness ==
  /\ rpc = "ValueError"
  /\ report = <<"r", "_", "x">>
  /\ document = ExampleDocument
  /\ test_cases = <<>>

\* The job id the first segment ends in, for the enumerated segments.
TrailingJobId(s) ==
  CASE s = <<"r", "_", "1", "2">> -> 12
    [] s = <<"r", "_", "1", "_", "3">> -> 3
    [] OTHER -> NoJobId

\* C4: with a first segment that ends in _<J>, every record has job_id = J,
\* workflow_id and workflow_run_attempt equal to the arguments, whatever
\* attributes and children the element has.
C4_InjectedFields ==
  HasTrailingInt(report) =>
    \A i \in 1..Len(test_cases) :
      /\ test_cases[i]["job_id"] = IntVal(TrailingJobId(report))
      /\ test_cases[i]["workflow_id"] = IntVal(workflow_id)
      /\ test_cases[i]["workflow_run_attempt"] = IntVal(workflow_run_attempt)

\* C4 witness: the root has an attribute workflow_id and a child job_id, its
\* second child an attribute job_id; both records carry the job id of the path.
C4_Witness ==
  /\ rpc = "returned"
  /\ report = <<"r", "_", "1", "_", "3">>
  /\ tag = "testcase"
  /\ document.tag = "testcase"
  /\ "workflow_id" \in DOMAIN document.attrib
  /\ Len(document.children) = 2
  /\ document.children[1].tag = "job_id"
  /\ document.children[2].tag = "testcase"
  /\ "job_id" \in DOMAIN document.children[2].attrib
  /\ Len(test_cases) = 2
  /\ test_cases[1]["job_id"] = IntVal(3)
  /\ test_cases[2]["job_id"] = IntVal(3)

\* The positions of the document's elements: the path of child indices from
\* the root.
RECURSIVE Paths(_)
Paths(e) ==
  {<<>>} \cup UNION {{<<i>> \o q : q \in Paths(e.children[i])} : i \in DOMAIN e.children}

RECURSIVE NodeAt(_, _)
NodeAt(e, path) == IF path = <<>> THEN e ELSE NodeAt(e.children[Head(path)], Tail(path))

\* Document order: an element comes before its descendants and before its
\* later siblings and their descendants.
Before(p, q) ==
  \/ Len(p) < Len(q) /\ SubSeq(q, 1, Len(p)) = p
  \/ \E i \in 1..Len(p) :
       /\ i <= Len(q)
       /\ SubSeq(p, 1, i - 1) = SubSeq(q, 1, i - 1)
       /\ p[i] < q[i]

Matched == {p \in Paths(document) : NodeAt(document, p).tag = tag}

Rank(p) == 1 + Cardinality({q \in Matched : Before(q, p)})

InjectedNames == {"workflow_id", "workflow_run_attempt", "job_id"}

Restrict(d, names) == [k \in (DOMAIN d) \ names |-> d[k]]

\* One record per matched element, in document order, each the normalized
\* element plus the injected fields.
OneRecordPerElement ==
  /\ Len(test_cases) = Cardinality(Matched)
  /\ \A p \in Matched :
       /\ InjectedNames \subseteq DOMAIN test_cases[Rank(p)]
       /\ Restrict(test_cases[Rank(p)], InjectedNames)
            = Restrict(process_xml_element(NodeAt(document, p)), InjectedNames)

ExampleRecords ==
  document = ExampleDocument =>
    /\ Len(test_cases) = 1
    /\ tag = "testcase" =>
         DOMAIN test_cases[1] = {"name", "time"} \cup InjectedNames
    /\ tag = "testsuite" =>
         /\ DOMAIN test_cases[1] = {"name", "tests", "testcase"} \cup InjectedNames
         /\ test_cases[1]["testcase"]
              = DictVal(("name" :> StrVal(<<"b", "a", "r">>)) @@ ("time" :> FloatVal(5, 1)))

\* C8 as stated: one record per matched element in document order; every
\* element of the tag nested in an element of the same tag is also a field of
\* that element's record, as the normalized child without injected fields.
C8_RecordsAsStated ==
  rpc = "returned" =>
    /\ OneRecordPerElement
    /\ ExampleRecords
    /\ \A p \in Matched :
         \A i \in DOMAIN NodeAt(document, p).children :
           LET c == NodeAt(document, p).children[i]
           IN  c.tag = tag => test_cases[Rank(p)][tag] = DictVal(process_xml_element(c))

\* C8, amended: one record per matched element in document order; an element
\* of the tag nested in an element of the same tag yields its own record and
\* is the field of its parent's record unless a later sibling has the same
\* tag; the injected fields are added to the returned records only: a nested
\* record is the normalized child, with a field of an injected name only
\* when the child has an attribute or a child of that name.
C8_Records ==
  rpc = "returned" =>
    /\ OneRecordPerElement
    /\ ExampleRecords
    /\ \A p \in Matched :
         \A t \in ChildTagsOf(NodeAt(document, p)) \ InjectedNames :
           LET c == LastChild(NodeAt(document, p), t)
               nested == test_cases[Rank(p)][t]
           IN  /\ nested = DictVal(process_xml_element(c))
               /\ \A f \in InjectedNames \cap DOMAIN nested.rec :
                    f \in (DOMAIN c.attrib) \cup ChildTagsOf(c)

\* C8 witness: a testsuite in a testsuite; the inner one has its own record,
\* with the injected fields, and is the field of the outer one, without them.
C8_Witness ==
  /\ rpc = "returned"
  /\ tag = "testsuite"
  /\ document.tag = "testsuite"
  /\ Len(document.children) = 1
  /\ document.children[1].tag = "testsuite"
  /\ Len(document.children[1].children) = 2
  /\ document.children[1].children[1].tag = "testcase"
  /\ document.children[1].children[2].tag = "testsuite"
  /\ Len(test_cases) = 3
  /\ document.children[1].attrib = EmptyDict
  /\ "job_id" \notin DOMAIN test_cases[1]["testsuite"].rec
  /\ "job_id" \in DOMAIN test_cases[2]
  /\ test_cases[1]["testsuite"].rec = Restrict(test_cases[2], InjectedNames)

----------------------------------------------------------------------------
\* Claims about the retrieval.

Range(f) == {f[i] : i \in DOMAIN f}

S3Downloads == SelectSeq(downloads, LAMBDA d : d.src = "s3")

GhaDownloads == SelectSeq(downloads, LAMBDA d : d.src = "gha")

\* C7: download_and_extract_s3_reports raises RuntimeError exactly when the
\* listing is empty; otherwise every listed object is downloaded and
\* extracted once, in listing order, and the check after the loop raises
\* nothing.
C7_S3Reports ==
  /\ error = "RuntimeError" <=> (pc = "error" /\ s3_listing = <<>>)
  /\ s3_listing = <<>> => pc \in {"s3_loop", "error"} /\ downloads = <<>> /\ dirs = {}
  /\ Len(S3Downloads) <= Len(s3_listing)
  /\ \A i \in DOMAIN S3Downloads : S3Downloads[i].name = s3_listing[i]
  /\ pc = "urls_first" =>
       /\ Len(S3Downloads) = Len(s3_listing)
       /\ \A i \in DOMAIN s3_listing :
            s3_listing[i] \in files /\ UNZIPPED \o Stem(s3_listing[i]) \in dirs

\* C7 witness: three listed objects, two of one name, all downloaded in order.
C7_Witness ==
  /\ pc = "urls_first"
  /\ Len(s3_listing) = 3
  /\ s3_listing[1] = s3_listing[3]
  /\ s3_listing[1] # s3_listing[2]
  /\ Len(downloads) = 3
  /\ Cardinality(dirs) = 2

\* The name has a hyphen-separated token runattempt<N> with N not the
\* requested attempt (N = 1 or 2 in the enumerated names).
OtherAttempt(name, attempt) ==
  \E n \in {<<"1">>, <<"2">>} :
    /\ <<"-">> \o RUNATTEMPT \o n \o <<"-">> \in
         {SubSeq(name, i, i + Len(RUNATTEMPT) + 2) :
            i \in 1..(Len(name) - Len(RUNATTEMPT) - 2)}
    /\ n # (IF attempt = 1 THEN <<"1">> ELSE <<"2">>)

\* C2: an artifact whose name has a token runattempt<N> with N not the
\* requested attempt is not downloaded, written or extracted; the other
\* artifacts of artifact_urls are.
C2_SkipsOtherAttempts ==
  /\ \A i \in DOMAIN GhaDownloads : ~OtherAttempt(GhaDownloads[i].name, run_attempt)
  /\ pc = "glob" =>
       \A j \in DOMAIN artifact_urls :
         ~OtherAttempt(artifact_urls[j].name, run_attempt) =>
           \E i \in DOMAIN GhaDownloads : GhaDownloads[i].name = artifact_urls[j].name

\* All artifacts of all pages, in page order.
RECURSIVE Flatten(_)
Flatten(ps) == IF ps = <<>> THEN <<>> ELSE Head(ps) \o Flatten(Tail(ps))

Listed == Flatten(pages)

IsTestReport(name) ==
  \E i \in 1..(Len(name) - 10) : SubSeq(name, i, i + 10) = TEST_REPORT

\* The pages are requested once each, in order, and the loop cannot stall
\* before the last page.
PagesInOrder ==
  /\ Len(fetched) <= Len(pages)
  /\ \A i \in DOMAIN fetched : fetched[i] = i
  /\ pc \in {"urls_first", "urls_loop"} => ENABLED (GetFirstPage \/ GetNextPage \/ BuildUrls)
  /\ pc \in {"gha_loop", "glob"} => Len(fetched) = Len(pages)

\* No entry for an artifact that is not on a page or has no test-report in
\* its name.
OnlyTestReports ==
  \A j \in DOMAIN artifact_urls :
    /\ IsTestReport(artifact_urls[j].name)
    /\ \E i \in DOMAIN Listed : Listed[i] = artifact_urls[j]

\* C10 as stated: every page is fetched once, in order, and the mapping has
\* the entry name -> archive_download_url of every artifact with test-report
\* in its name, and of no other artifact.
C10_ArtifactUrlsAsStated ==
  /\ PagesInOrder
  /\ OnlyTestReports
  /\ pc \in {"gha_loop", "glob"} =>
       \A i \in DOMAIN Listed :
         IsTestReport(Listed[i].name) => Listed[i] \in Range(artifact_urls)

\* C10, amended: every page is fetched once, in order; the keys of the
\* mapping are the names with test-report in them, and each is mapped to the
\* archive_download_url of the last artifact of that name in page order.
C10_ArtifactUrls ==
  /\ PagesInOrder
  /\ OnlyTestReports
  /\ \A j, k \in DOMAIN artifact_urls : artifact_urls[j].name = artifact_urls[k].name => j = k
  /\ pc \in {"gha_loop", "glob"} =>
       \A i \in DOMAIN Listed :
         IsTestReport(Listed[i].name) =>
           \/ Listed[i] \in Range(artifact_urls)
           \/ \E k \in (i + 1)..Len(Listed) :
                Listed[k].name = Listed[i].name /\ Listed[k] \in Range(artifact_urls)

\* C10 witness: two pages, an artifact without test-report in its name and two
\* of one name; both pages were fetched and the later URL is in the mapping.
C10_Witness ==
  /\ pc = "gha_loop"
  /\ Len(pages) = 2
  /\ Len(pages[1]) = 2
  /\ Len(pages[2]) = 1
  /\ pages[1][1].url = "url3"
  /\ pages[1][2].url = "url5"
  /\ pages[2][1].url = "url4"
  /\ fetched = <<1, 2>>
  /\ Len(artifact_urls) = 1
  /\ artifact_urls[1].url = "url4"

----------------------------------------------------------------------------
\* Claims about the run.

StageRank(p) ==
  CASE p = "s3_loop" -> 1
    [] p \in {"urls_first", "urls_loop", "gha_loop"} -> 2
    [] p \in {"glob", "glob_loop", "testcase", "testsuite"} -> 3
    [] p = "upload_test_run" -> 4
    [] p = "upload_test_suite" -> 5
    [] p = "done" -> 6
    [] p = "error" -> 7

\* What has happened when add_docs is first called: all the retrieval and
\* all the normalization, without error.
AllRetrievedAndNormalized ==
  /\ found_one
  /\ Len(S3Downloads) = Len(s3_listing)
  /\ Len(fetched) = Len(pages)
  /\ Len(GhaDownloads) = Len(artifact_urls)
  /\ downloads = S3Downloads \o GhaDownloads
  /\ xml_reports = {}
  /\ Len(all_cases) = Cardinality(dirs)
  /\ Len(all_suites) = Cardinality(dirs)

\* At most one call per collection, test_run first and with all of the
\* test cases, test_suite only after test_run succeeded.
UploadsInOrder ==
  /\ Len(add_docs) <= 2
  /\ Len(add_docs) >= 1 =>
       add_docs[1].collection = "test_run" /\ add_docs[1].docs = all_cases
  /\ Len(add_docs) = 2 =>
       /\ add_docs[1].ok
       /\ add_docs[2].collection = "test_suite" /\ add_docs[2].docs = all_suites

RunInvariant ==
  /\ UploadsInOrder
  /\ add_docs # <<>> => AllRetrievedAndNormalized
  /\ error \in {"RuntimeError", "ValueError", "ParseError"} => add_docs = <<>>
  /\ (error # "none") = (pc = "error")
  /\ pc = "done" => Len(add_docs) = 2 /\ add_docs[2].ok

\* The stages follow each other and none is entered again; each kind of
\* request is made in its own stage; after an exception nothing happens.
RunStep ==
  /\ StageRank(pc') >= StageRank(pc)
  /\ pc = "error" => UNCHANGED vars
  /\ Len(S3Downloads') # Len(S3Downloads) => pc = "s3_loop"
  /\ fetched' # fetched => pc \in {"urls_first", "urls_loop"}
  /\ Len(GhaDownloads') # Len(GhaDownloads) => pc = "gha_loop"
  /\ <<all_cases, all_suites>>' # <<all_cases, all_suites>> => pc \in {"testcase", "testsuite"}
  /\ add_docs' # add_docs =>
       /\ pc \in {"upload_test_run", "upload_test_suite"}
       /\ Len(add_docs') = Len(add_docs) + 1

\* C9: the stages happen in the order object-storage retrieval, CI-artifact
\* retrieval, normalization, upload to test_run, upload to test_suite, with
\* no retry; add_docs is called only after all retrieval and normalization
\* finished without error; each collection gets at most one call, with its
\* full batch; test_suite is uploaded only after test_run succeeded.
C9_StagesInOrder == [](RunInvariant) /\ [][RunStep]_vars

\* C9 witness: a run that ended after both uploads, with the records of one
\* object-storage report and one artifact in each batch.
C9_Witness ==
  /\ pc = "done"
  /\ Len(s3_listing) = 1
  /\ Len(pages) = 2
  /\ Len(artifact_urls) = 1
  /\ Len(add_docs) = 2
  /\ Len(add_docs[1].docs) = 2
  /\ Len(add_docs[2].docs) = 2

====
